---- MODULE Spec2Model ----
(***************************************************************************)
(* A model of the toml_edit parsing core: simple keys and key paths        *)
(* (parser/key.rs), the Key value (key.rs), the date-time grammar          *)
(* (parser/datetime.rs), inline-table assembly (parser/inline_table.rs)    *)
(* and the parse entry points and recursion guard (parser/mod.rs).         *)
(*                                                                         *)
(* A text is a sequence of one-character strings.  A parser takes the text *)
(* s and the position i of the next unread character and returns a record  *)
(*   [st |-> "Ok", pos |-> next position, val |-> output]           or     *)
(*   [st |-> "Error" | "Failure", pos |-> where, cause |-> record]         *)
(* "Error" is nom8's recoverable Err::Error, "Failure" is what cut() makes *)
(* of it: alt, opt and the separated lists recover from the first only.    *)
(***************************************************************************)
EXTENDS Integers, Sequences, FiniteSets, TLC

VARIABLES input, op, result, output, used, keys, parses, DEPTH

vars == <<input, op, result, output, used, keys, parses, DEPTH>>

(***************************************************************************)
(* Bounds of the explored inputs.                                          *)
(***************************************************************************)
MaxKeyLen == 4

MaxFracDigits == 10

\* the key segments typed into an inline table
MaxKeys == 4

\* the blanks typed into an empty inline table
MaxBlanks == 3

\* the segments of a key path and the levels of nested inline tables
MaxDepth == 129

(***************************************************************************)
(* Characters.                                                             *)
(***************************************************************************)
DIGIT == {"0", "1", "2", "3", "4", "5", "6", "7", "8", "9"}

UpperAlpha ==
    {"A", "B", "C", "D", "E", "F", "G", "H", "I", "J", "K", "L", "M",
     "N", "O", "P", "Q", "R", "S", "T", "U", "V", "W", "X", "Y", "Z"}

LowerAlpha ==
    {"a", "b", "c", "d", "e", "f", "g", "h", "i", "j", "k", "l", "m",
     "n", "o", "p", "q", "r", "s", "t", "u", "v", "w", "x", "y", "z"}

UNQUOTED_CHAR == UpperAlpha \cup LowerAlpha \cup DIGIT \cup {"-", "_"}

is_unquoted_char(c) == c \in UNQUOTED_CHAR

QUOTATION_MARK == "\""

APOSTROPHE == "'"

BACKSLASH == "\\"

DOT_SEP == "."

WSCHAR == {" ", "\t"}

(***************************************************************************)
(* Parser results and the combinators of nom8 the grammar is built from.   *)
(***************************************************************************)
Grammar == [kind |-> "Grammar"]

OutOfRange == [kind |-> "OutOfRange"]

RecursionLimitExceeded == [kind |-> "RecursionLimitExceeded"]

POk(p, v) == [st |-> "Ok", pos |-> p, val |-> v]

PErr(p, c) == [st |-> "Error", pos |-> p, cause |-> c]

PFail(p, c) == [st |-> "Failure", pos |-> p, cause |-> c]

IsOk(r) == r.st = "Ok"

\* cut(p): a recoverable error of p becomes a failure
Cut(r) == IF r.st = "Error" THEN PFail(r.pos, r.cause) ELSE r

\* a sequence of parsers: the next one runs on the output of r, an error of
\* r ends the sequence
Then(r, Next(_)) == IF r.st = "Ok" THEN Next(r) ELSE r

\* a loop that has more rounds to go, at position p with the output v so far
More(p, v) == [st |-> "More", pos |-> p, val |-> v]

\* a loop: Step is applied to l until its st is no longer "More", n rounds
\* at most, the first half of the rounds and then the others
RECURSIVE Loop(_, _, _)
Loop(Step(_), l, n) ==
    IF l.st # "More" \/ n = 0 THEN l
    ELSE IF n = 1 THEN Step(l)
    ELSE Loop(Step, Loop(Step, l, n \div 2), n - n \div 2)

\* opt(p) at position i: a recoverable error of p is no output and no advance
Opt(r, i) ==
    IF r.st = "Error" THEN POk(i, <<>>)
    ELSE IF r.st = "Ok" THEN POk(r.pos, <<r.val>>)
    ELSE r

\* one byte literal, one_of: the next character must be in the set
OneOf(s, i, set) ==
    IF i <= Len(s) /\ s[i] \in set THEN POk(i + 1, s[i]) ELSE PErr(i, Grammar)

\* the first position at or after i whose character is not in set
RECURSIVE TakeWhile(_, _, _)
TakeWhile(s, i, set) ==
    IF i <= Len(s) /\ s[i] \in set THEN TakeWhile(s, i + 1, set) ELSE i

\* the first position at or after i whose character is in set
RECURSIVE TakeUntil(_, _, _)
TakeUntil(s, i, set) ==
    IF i <= Len(s) /\ s[i] \notin set THEN TakeUntil(s, i + 1, set) ELSE i

\* FinishIResult::finish: the parser's output, provided no input is left
Finish(s, r) ==
    IF r.st # "Ok" THEN [st |-> "Err", pos |-> r.pos, cause |-> r.cause]
    ELSE IF r.pos <= Len(s) THEN [st |-> "Err", pos |-> r.pos, cause |-> Grammar]
    ELSE [st |-> "Ok", val |-> r.val]

\* ws = *wschar: the position after the run of blanks; never fails
ws(s, i) == TakeWhile(s, i, WSCHAR)

(***************************************************************************)
(* parser/key.rs: simple keys.                                             *)
(***************************************************************************)
\* unquoted-key = 1*( ALPHA / DIGIT / %x2D / %x5F )
unquoted_key(s, i) ==
    LET j == TakeWhile(s, i, UNQUOTED_CHAR)
    IN  IF j > i THEN POk(j, SubSeq(s, i, j - 1)) ELSE PErr(i, Grammar)

\* literal-string = apostrophe *literal-char apostrophe
literal_string(s, i) ==
    LET j == TakeUntil(s, i + 1, {APOSTROPHE, "\n"})
    IN  IF i > Len(s) \/ s[i] # APOSTROPHE THEN PErr(i, Grammar)
        ELSE IF j > Len(s) \/ s[j] # APOSTROPHE THEN PFail(j, Grammar)
        ELSE POk(j + 1, SubSeq(s, i + 1, j - 1))

\* the decoded characters of a basic string body from position i up to the
\* closing quotation mark, <<position of the quotation mark, decoded>>;
\* position 0 when the body is malformed or unterminated
RECURSIVE BasicChars(_, _, _)
BasicChars(s, i, acc) ==
    IF i > Len(s) \/ s[i] = "\n" THEN <<0, acc>>
    ELSE IF s[i] = QUOTATION_MARK THEN <<i, acc>>
    ELSE IF s[i] = BACKSLASH
         THEN IF i + 1 <= Len(s) /\ s[i + 1] \in {QUOTATION_MARK, BACKSLASH}
              THEN BasicChars(s, i + 2, Append(acc, s[i + 1]))
              ELSE <<0, acc>>
    ELSE BasicChars(s, i + 1, Append(acc, s[i]))

\* basic-string = quotation-mark *basic-char quotation-mark
basic_string(s, i) ==
    LET b == BasicChars(s, i + 1, <<>>)
    IN  IF i > Len(s) \/ s[i] # QUOTATION_MARK THEN PErr(i, Grammar)
        ELSE IF b[1] = 0 THEN PFail(i, Grammar)
        ELSE POk(b[1] + 1, b[2])

\* simple-key = quoted-key / unquoted-key, with the text it was read from
simple_key(s, i) ==
    LET r == IF i > Len(s) THEN PErr(i, Grammar)
             ELSE IF s[i] = QUOTATION_MARK THEN basic_string(s, i)
             ELSE IF s[i] = APOSTROPHE THEN literal_string(s, i)
             ELSE unquoted_key(s, i)
    IN  IF IsOk(r)
        THEN POk(r.pos, [raw |-> SubSeq(s, i, r.pos - 1), key |-> r.val])
        ELSE r

(***************************************************************************)
(* key.rs: the Key value.  An Option is a sequence of length 0 or 1.       *)
(***************************************************************************)
None == <<>>

Some(x) == <<x>>

\* Decor::default() and Decor::clear()
DecorDefault == [prefix |-> None, suffix |-> None]

\* Decor::new(prefix, suffix)
DecorNew(pre, suf) == [prefix |-> Some(pre), suffix |-> Some(suf)]

\* Key::new
KeyNew(k) == [key |-> k, repr |-> None, decor |-> DecorDefault]

with_repr_unchecked(k, r) == [k EXCEPT !.repr = Some(r)]

with_decor(k, d) == [k EXCEPT !.decor = d]

\* Key::get
Get(k) == k.key

\* Decor::clear through Key::decor_mut
decor_clear(k) == [k EXCEPT !.decor = DecorDefault]

\* the characters of the model in byte order
ByteOrder ==
    <<"\t", "\n", " ", QUOTATION_MARK, APOSTROPHE, "+", ",", "-", DOT_SEP,
      "0", "1", "2", "3", "4", "5", "6", "7", "8", "9", ":", "=",
      "A", "B", "C", "D", "E", "F", "G", "H", "I", "J", "K", "L", "M",
      "N", "O", "P", "Q", "R", "S", "T", "U", "V", "W", "X", "Y", "Z",
      BACKSLASH, "_",
      "a", "b", "c", "d", "e", "f", "g", "h", "i", "j", "k", "l", "m",
      "n", "o", "p", "q", "r", "s", "t", "u", "v", "w", "x", "y", "z",
      "{", "}">>

Byte(c) == CHOOSE n \in 1..Len(ByteOrder) : ByteOrder[n] = c

\* str::cmp: bytewise lexicographic order
RECURSIVE StrCmpFrom(_, _, _)
StrCmpFrom(a, b, i) ==
    IF i > Len(a) /\ i > Len(b) THEN "Equal"
    ELSE IF i > Len(a) THEN "Less"
    ELSE IF i > Len(b) THEN "Greater"
    ELSE IF Byte(a[i]) < Byte(b[i]) THEN "Less"
    ELSE IF Byte(a[i]) > Byte(b[i]) THEN "Greater"
    ELSE StrCmpFrom(a, b, i + 1)

StrCmp(a, b) == StrCmpFrom(a, b, 1)

\* str::hash: what is written to the hasher, the bytes and a terminator
StrHash(a) == Append(a, "0xFF")

\* an equality that compares all the fields, as a derived PartialEq would
KeyEq_AllFields(k1, k2) == k1 = k2

\* impl PartialEq for Key
KeyEq(k1, k2) == Get(k1) = Get(k2)

\* an ordering on the spelling instead of the decoded string
KeyCmp_OnRepr(k1, k2) == StrCmp(k1.repr \o k1.key, k2.repr \o k2.key)

\* impl Ord for Key
KeyCmp(k1, k2) == StrCmp(Get(k1), Get(k2))

\* impl Hash for Key
KeyHash(k) == StrHash(Get(k))

(***************************************************************************)
(* parser/datetime.rs: the date-time grammar.                              *)
(***************************************************************************)
DigitChars == <<"0", "1", "2", "3", "4", "5", "6", "7", "8", "9">>

DigitVal(c) == (CHOOSE n \in 1..Len(DigitChars) : DigitChars[n] = c) - 1

\* str::parse of a run of digits, before any width is applied
RECURSIVE ParseDec(_)
ParseDec(d) ==
    IF d = <<>> THEN 0
    ELSE ParseDec(SubSeq(d, 1, Len(d) - 1)) * 10 + DigitVal(d[Len(d)])

\* a run of digits without its leading zeros
RECURSIVE StripZeros(_)
StripZeros(d) ==
    IF d # <<>> /\ d[1] = "0" THEN StripZeros(Tail(d)) ELSE d

\* u32::MAX, 2^32 - 1, in decimal
U32_MAX_DIGITS == <<"4", "2", "9", "4", "9", "6", "7", "2", "9", "5">>

\* str::parse::<u32> succeeds on a run of digits: the number is at most
\* u32::MAX (digits of equal length compare as numbers do)
ParsesAsU32(d) ==
    LET t == StripZeros(d)
    IN  \/ Len(t) < Len(U32_MAX_DIGITS)
        \/ /\ Len(t) = Len(U32_MAX_DIGITS)
           /\ \E n \in 1..(Len(t) + 1) :
                 /\ \A m \in 1..(n - 1) : t[m] = U32_MAX_DIGITS[m]
                 /\ n <= Len(t) => DigitVal(t[n]) < DigitVal(U32_MAX_DIGITS[n])

\* u32::checked_mul(v, scale) is None, for a scale that is 0, 1 or even:
\* v * scale > 2^32 - 1 iff v > (2^32 - 1) div scale, and for an even scale
\* (2^32 - 1) div scale = (2^31 - 1) div (scale div 2)
CheckedMulFails(v, scale) ==
    scale >= 2 /\ v > 2147483647 \div (scale \div 2)

\* take_while_m_n(MIN, MAX, DIGIT); max = -1 stands for usize::MAX
unsigned_digits(s, i, min, max) ==
    LET all == TakeWhile(s, i, DIGIT)
        j   == IF max >= 0 /\ all - i > max THEN i + max ELSE all
    IN  IF j - i >= min THEN POk(j, SubSeq(s, i, j - 1)) ELSE PErr(i, Grammar)

\* a 2DIGIT field that must lie in lo..hi (map_res: a recoverable error)
TwoDigitField(s, i, lo, hi) ==
    Then(unsigned_digits(s, i, 2, 2), LAMBDA r :
        IF ParseDec(r.val) >= lo /\ ParseDec(r.val) <= hi
        THEN POk(r.pos, ParseDec(r.val))
        ELSE PErr(i, OutOfRange))

\* date-fullyear = 4DIGIT
date_fullyear(s, i) ==
    Then(unsigned_digits(s, i, 4, 4), LAMBDA r : POk(r.pos, ParseDec(r.val)))

\* date-month = 2DIGIT ; 01-12
date_month(s, i) == TwoDigitField(s, i, 1, 12)

\* date-mday = 2DIGIT ; 01-31
date_mday(s, i) == TwoDigitField(s, i, 1, 31)

\* time-hour = 2DIGIT ; 00-23
time_hour(s, i) == TwoDigitField(s, i, 0, 23)

\* time-minute = 2DIGIT ; 00-59
time_minute(s, i) == TwoDigitField(s, i, 0, 59)

\* time-second = 2DIGIT ; 00-60
time_second(s, i) == TwoDigitField(s, i, 0, 60)

TIME_DELIM == {"T", "t", " "}

time_delim(s, i) == OneOf(s, i, TIME_DELIM)

SCALE ==
    <<0, 100000000, 10000000, 1000000, 100000, 10000, 1000, 100, 10, 1>>

\* the closure of time_secfrac on the digits after the point, with the
\* number of digits kept as a parameter: [ok, v]
SecfracValue(repr, max_digits) ==
    LET kept       == IF max_digits < Len(repr)
                      THEN SubSeq(repr, 1, max_digits) ELSE repr
        v          == ParseDec(kept)
        num_digits == Len(kept)
    IN  IF ~ParsesAsU32(kept) THEN [ok |-> FALSE, v |-> 0]
        ELSE IF num_digits + 1 > Len(SCALE) THEN [ok |-> FALSE, v |-> 0]
        ELSE IF CheckedMulFails(v, SCALE[num_digits + 1]) THEN [ok |-> FALSE, v |-> 0]
        ELSE [ok |-> TRUE, v |-> v * SCALE[num_digits + 1]]

\* time_secfrac keeping one digit more than the table has scales for
time_secfrac_KeepTen(s, i) ==
    Then(OneOf(s, i, {"."}), LAMBDA dot :
    Then(unsigned_digits(s, dot.pos, 1, -1), LAMBDA d :
    Then([st |-> "Ok", v |-> SecfracValue(d.val, Len(SCALE))], LAMBDA x :
        IF x.v.ok THEN POk(d.pos, x.v.v) ELSE PErr(i, OutOfRange))))

\* time-secfrac = "." 1*DIGIT
time_secfrac(s, i) ==
    Then(OneOf(s, i, {"."}), LAMBDA dot :
    Then(unsigned_digits(s, dot.pos, 1, -1), LAMBDA d :
    Then([st |-> "Ok", v |-> SecfracValue(d.val, Len(SCALE) - 1)], LAMBDA x :
        IF x.v.ok THEN POk(d.pos, x.v.v) ELSE PErr(i, OutOfRange))))

\* full-date = date-fullyear "-" date-month "-" date-mday
full_date(s, i) ==
    Then(date_fullyear(s, i), LAMBDA year :
    Then(OneOf(s, year.pos, {"-"}), LAMBDA d1 :
    Then(Cut(date_month(s, d1.pos)), LAMBDA month :
    Then(Cut(OneOf(s, month.pos, {"-"})), LAMBDA d2 :
    Then(Cut(date_mday(s, d2.pos)), LAMBDA day :
        POk(day.pos,
            [year |-> year.val, month |-> month.val, day |-> day.val]))))))

\* partial-time = time-hour ":" time-minute ":" time-second [time-secfrac]
partial_time(s, i) ==
    Then(time_hour(s, i), LAMBDA hour :
    Then(OneOf(s, hour.pos, {":"}), LAMBDA c1 :
    Then(Cut(time_minute(s, c1.pos)), LAMBDA minute :
    Then(Cut(OneOf(s, minute.pos, {":"})), LAMBDA c2 :
    Then(Cut(time_second(s, c2.pos)), LAMBDA second :
    Then(Cut(Opt(time_secfrac(s, second.pos), second.pos)), LAMBDA frac :
        POk(frac.pos,
            [hour |-> hour.val, minute |-> minute.val, second |-> second.val,
             nanosecond |-> IF frac.val = <<>> THEN 0 ELSE frac.val[1]])))))))

OffsetZ == [kind |-> "Z"]

OffsetCustom(h, m) == [kind |-> "Custom", hours |-> h, minutes |-> m]

\* time-numoffset = ( "+" / "-" ) time-hour ":" time-minute
time_numoffset(s, i) ==
    Then(OneOf(s, i, {"+", "-"}), LAMBDA sign :
    Then(Cut(time_hour(s, sign.pos)), LAMBDA hours :
    Then(Cut(OneOf(s, hours.pos, {":"})), LAMBDA c :
    Then(Cut(time_minute(s, c.pos)), LAMBDA minutes :
        POk(minutes.pos,
            OffsetCustom(IF sign.val = "+" THEN hours.val ELSE 0 - hours.val,
                         minutes.val))))))

\* alt((p, q)) at one position: q runs when p fails with a recoverable error
Alt(r, q) == IF r.st = "Error" THEN q ELSE r

\* time-offset = "Z" / time-numoffset
time_offset(s, i) ==
    Alt(Then(OneOf(s, i, {"Z", "z"}), LAMBDA z : POk(z.pos, OffsetZ)),
        time_numoffset(s, i))

\* impl From<Time> for Datetime
DatetimeFromTime(t) == [date |-> None, time |-> Some(t), offset |-> None]

\* (time_delim, partial_time, opt(time_offset))
DelimTimeOffset(s, i) ==
    Then(time_delim(s, i), LAMBDA delim :
    Then(partial_time(s, delim.pos), LAMBDA time :
    Then(Opt(time_offset(s, time.pos), time.pos), LAMBDA offset :
        POk(offset.pos, [time |-> time.val, offset |-> offset.val]))))

\* the first alternative of date_time: a date and, optionally, a delimiter,
\* a time and, optionally, an offset
DateThenTime(s, i) ==
    Then(full_date(s, i), LAMBDA date :
    Then(Opt(DelimTimeOffset(s, date.pos), date.pos), LAMBDA opt :
        IF opt.val = <<>>
        THEN POk(opt.pos,
                 [date |-> Some(date.val), time |-> None, offset |-> None])
        ELSE POk(opt.pos,
                 [date |-> Some(date.val), time |-> Some(opt.val[1].time),
                  offset |-> opt.val[1].offset])))

\* the second alternative of date_time: a time
LocalTime(s, i) ==
    Then(partial_time(s, i), LAMBDA time :
        POk(time.pos, DatetimeFromTime(time.val)))

\* the second alternative with an offset read after the time as well
LocalTime_WithOffset(s, i) ==
    Then(partial_time(s, i), LAMBDA time :
    Then(Opt(time_offset(s, time.pos), time.pos), LAMBDA offset :
        POk(offset.pos,
            [date |-> None, time |-> Some(time.val), offset |-> offset.val])))

\* date_time with an offset read after a bare time as well
date_time_OffsetAfterLocalTime(s, i) ==
    Alt(DateThenTime(s, i), LocalTime_WithOffset(s, i))

\* date-time = offset-date-time / local-date-time / local-date / local-time
date_time(s, i) == Alt(DateThenTime(s, i), LocalTime(s, i))

(***************************************************************************)
(* parser/mod.rs: the recursion guard.                                     *)
(***************************************************************************)
RecursionLimit == 128

\* RecursionCheck::default()
RecursionCheckDefault == [current |-> 0]

\* RecursionCheck::check_depth: Ok(()) or RecursionLimitExceeded
check_depth(depth) == depth < RecursionLimit

\* RecursionCheck::recursing: the guard one level deeper, or the error
recursing(check) ==
    IF check.current + 1 < RecursionLimit
    THEN [ok |-> TRUE, check |-> [current |-> check.current + 1]]
    ELSE [ok |-> FALSE, check |-> check]

(***************************************************************************)
(* parser/key.rs: key paths.                                               *)
(***************************************************************************)
\* (ws, simple_key, ws) mapped to a Key with its spelling and its decor
KeySegment(s, i) ==
    Then(simple_key(s, ws(s, i)), LAMBDA k :
        POk(ws(s, k.pos),
            with_decor(with_repr_unchecked(KeyNew(k.val.key), k.val.raw),
                       DecorNew(SubSeq(s, i, ws(s, i) - 1),
                                SubSeq(s, k.pos, ws(s, k.pos) - 1)))))

\* what the loop of separated_list1 does with the element e it read after
\* the separator at l.pos: an element that fails leaves the separator unread
KeySegmentRead(l, e) ==
    IF e.st = "Ok" THEN More(e.pos, Append(l.val, e.val))
    ELSE IF e.st = "Error" THEN POk(l.pos, l.val)
    ELSE e

\* one round of the loop of separated_list1: a separator and an element
KeySegmentsStep(s, l) ==
    IF ~(l.pos <= Len(s) /\ s[l.pos] = DOT_SEP) THEN POk(l.pos, l.val)
    ELSE KeySegmentRead(l, KeySegment(s, l.pos + 1))

\* separated_list1(DOT_SEP, KeySegment)
KeySegments(s, i) ==
    Then(KeySegment(s, i), LAMBDA e :
        Loop(LAMBDA l : KeySegmentsStep(s, l), More(e.pos, <<e.val>>), Len(s)))

\* key = simple-key / dotted-key, its length checked against the ceiling
key(s, i) ==
    Then(KeySegments(s, i), LAMBDA k :
        IF check_depth(Len(k.val)) THEN k
        ELSE PErr(i, RecursionLimitExceeded))

\* parser/mod.rs: parse_key_path
parse_key_path(raw) == Finish(raw, key(raw, 1))

(***************************************************************************)
(* Values and inline tables.  The items of an InlineTable are an IndexMap: *)
(* a sequence of TableKeyValue in insertion order, looked up by decoded    *)
(* key.                                                                    *)
(***************************************************************************)
\* InlineTable::new
InlineTableNew ==
    [items |-> <<>>, preamble |-> <<>>, dotted |-> FALSE]

\* Value::Integer with its spelling
ValueInteger(repr) ==
    [type |-> "integer", repr |-> repr, table |-> InlineTableNew,
     decor |-> DecorDefault]

\* Value::InlineTable
ValueInlineTable(t) ==
    [type |-> "inline table", repr |-> <<>>, table |-> t,
     decor |-> DecorDefault]

\* Value::type_name
type_name(v) == v.type

\* Value::decorated
decorated(v, pre, suf) == [v EXCEPT !.decor = DecorNew(pre, suf)]

\* IndexMap::get_index_of: the place of the key in the items, 0 when absent
IndexOf(items, k) ==
    IF \E n \in 1..Len(items) : Get(items[n].key) = k
    THEN CHOOSE n \in 1..Len(items) : Get(items[n].key) = k
    ELSE 0

\* CustomError::DuplicateKey
DuplicateKey(k) == [kind |-> "DuplicateKey", key |-> k, table |-> None]

\* CustomError::extend_wrong_type(path, i, actual)
extend_wrong_type(path, i, actual) ==
    [kind |-> "DottedKeyExtendWrongType", path |-> path, i |-> i,
     actual |-> actual]

\* the table a dotted key makes for one of its segments
DottedTableEntry(k) ==
    [key |-> k,
     value |-> ValueInlineTable([InlineTableNew EXCEPT !.dotted = TRUE])]

(***************************************************************************)
(* parser/inline_table.rs: descend_path and table_from_pairs.  The         *)
(* &mut InlineTable that walks down from the root is a cursor: the table   *)
(* it points to (cur) and, from the root down, the tables above it, each   *)
(* with the place (at) of the entry that was entered.                      *)
(***************************************************************************)
Cursor(root) == [st |-> "More", above |-> <<>>, cur |-> root, n |-> 1]

\* the cursor moved into the table of the entry at place at of table t
Enter(c, t, at) ==
    [c EXCEPT !.above = Append(@, [table |-> t, at |-> at]),
              !.cur = t.items[at].value.table,
              !.n = @ + 1]

\* or_insert_with: the new entry of a segment that is not in the table
WithDottedTable(t, k) == [t EXCEPT !.items = Append(@, DottedTableEntry(k))]

\* the loop body of descend_path that gives an entry that is there the key
\* it was reached by
DescendEntry_Respell(c, path, at) ==
    IF at = 0
    THEN Enter(c, WithDottedTable(c.cur, path[c.n]), Len(c.cur.items) + 1)
    ELSE IF c.cur.items[at].value.type = "inline table"
    THEN Enter(c, [c.cur EXCEPT !.items[at].key = path[c.n]], at)
    ELSE [st |-> "Err",
          err |-> extend_wrong_type(path, c.n - 1,
                                    type_name(c.cur.items[at].value))]

\* the loop body of descend_path that enters whatever value is there
DescendEntry_NoTypeCheck(c, path, at) ==
    IF at = 0
    THEN Enter(c, WithDottedTable(c.cur, path[c.n]), Len(c.cur.items) + 1)
    ELSE Enter(c, c.cur, at)

\* the loop body of descend_path for segment c.n, at the place of the
\* segment in the table of the cursor
DescendEntry(c, path, at) ==
    IF at = 0
    THEN Enter(c, WithDottedTable(c.cur, path[c.n]), Len(c.cur.items) + 1)
    ELSE IF c.cur.items[at].value.type = "inline table"
    THEN Enter(c, c.cur, at)
    ELSE [st |-> "Err",
          err |-> extend_wrong_type(path, c.n - 1,
                                    type_name(c.cur.items[at].value))]

\* one round of the loop of descend_path
DescendStep(c, path) ==
    IF c.n > Len(path) THEN [c EXCEPT !.st = "Ok"]
    ELSE DescendEntry(c, path, IndexOf(c.cur.items, Get(path[c.n])))

descend_path(root, path) ==
    Loop(LAMBDA c : DescendStep(c, path), Cursor(root), Len(path) + 1)

\* the table of the cursor put back into the table above it
AscendStep(c) ==
    IF c.above = <<>> THEN [c EXCEPT !.st = "Ok"]
    ELSE [c EXCEPT
            !.cur = [c.above[Len(c.above)].table EXCEPT
                        !.items[c.above[Len(c.above)].at].value.table = c.cur],
            !.above = SubSeq(@, 1, Len(@) - 1)]

\* the root after the table of the cursor became t
RootWith(c, t) ==
    Loop(AscendStep, [c EXCEPT !.st = "More", !.cur = t], Len(c.above) + 1).cur

\* table.items.entry(key) that overwrites an Occupied entry
InsertEntry_Overwrite(c, kv, at) ==
    IF at = 0
    THEN [ok |-> TRUE,
          root |-> RootWith(c, [c.cur EXCEPT !.items = Append(@, kv)])]
    ELSE [ok |-> TRUE,
          root |-> RootWith(c, [c.cur EXCEPT !.items[at] = kv])]

\* table.items.entry(key): Vacant inserts, Occupied is the error
InsertEntry(c, kv, at) ==
    IF at = 0
    THEN [ok |-> TRUE,
          root |-> RootWith(c, [c.cur EXCEPT !.items = Append(@, kv)])]
    ELSE [ok |-> FALSE, err |-> DuplicateKey(Get(c.cur.items[at].key))]

\* the loop body of table_from_pairs after descend_path gave c
InsertAt(c, kv) ==
    IF c.st = "Err" THEN [ok |-> FALSE, err |-> c.err]
    ELSE InsertEntry(c, kv, IndexOf(c.cur.items, Get(kv.key)))

\* one round of the loop of table_from_pairs: pair l.n goes into l.root
PairsStep(l, v) ==
    IF l.n > Len(v) THEN [l EXCEPT !.st = "Ok"]
    ELSE IF InsertAt(descend_path(l.root, v[l.n].path), v[l.n].kv).ok
    THEN [l EXCEPT
            !.root = InsertAt(descend_path(l.root, v[l.n].path), v[l.n].kv).root,
            !.n = @ + 1]
    ELSE [st |-> "Err",
          err |-> InsertAt(descend_path(l.root, v[l.n].path), v[l.n].kv).err]

\* table_from_pairs: [st |-> "Ok", root] or [st |-> "Err", err]
table_from_pairs(v, preamble) ==
    Loop(LAMBDA l : PairsStep(l, v),
         [st |-> "More", root |-> [InlineTableNew EXCEPT !.preamble = preamble],
          n |-> 1],
         Len(v) + 1)

(***************************************************************************)
(* parser/inline_table.rs: the grammar of inline tables.  Of the values    *)
(* the model has integers and inline tables.  The calls of inline_table    *)
(* that are not finished are a stack of frames, one for each table that    *)
(* is open, and the parser goes on from one of four places (mode):         *)
(*   "table"   at the opening brace of a table                             *)
(*   "keyval"  at the start of an entry                                    *)
(*   "value"   after the value of an entry                                 *)
(*   "close"   after the last entry of a table                             *)
(***************************************************************************)
INLINE_TABLE_OPEN == "{"
INLINE_TABLE_CLOSE == "}"
INLINE_TABLE_SEP == ","
KEYVAL_SEP == "="

\* an integer: a run of digits, kept as written
integer(s, i) ==
    IF TakeWhile(s, i, DIGIT) > i
    THEN POk(TakeWhile(s, i, DIGIT),
             ValueInteger(SubSeq(s, i, TakeWhile(s, i, DIGIT) - 1)))
    ELSE PErr(i, Grammar)

\* the call of inline_table(check) at position i
Call(check, i) ==
    [st |-> "More", mode |-> "table", pos |-> i, check |-> check,
     sep |-> FALSE, stack |-> <<>>, val |-> <<>>, cause |-> Grammar]

\* the frame of a table: the guard inside it, the place of its brace, the
\* entries read, and of the entry being read the key and the place after =
Frame(check, open) ==
    [check |-> check, open |-> open, pairs |-> <<>>, key |-> <<>>, eq |-> 0]

Top(m) == m.stack[Len(m.stack)]

\* an error under cut()
Fail(m, p, c) == [m EXCEPT !.st = "Failure", !.pos = p, !.cause = c]

\* inline_table: the opening brace; inline_table_keyvals: the guard one
\* level deeper, its error under the cut() of inline_table
EnterTable(s, m) ==
    IF ~(m.pos <= Len(s) /\ s[m.pos] = INLINE_TABLE_OPEN)
    THEN [m EXCEPT !.st = "Error", !.cause = Grammar]
    ELSE IF ~recursing(m.check).ok
    THEN Fail(m, m.pos + 1, RecursionLimitExceeded)
    ELSE [m EXCEPT !.mode = "keyval", !.pos = m.pos + 1, !.sep = FALSE,
                   !.stack = Append(@, Frame(recursing(m.check).check, m.pos))]

\* (ws, value(check), ws) after the = at m.pos - 1: an inline table is
\* read by a call of inline_table with the guard of this table
ReadValue(s, m, v) ==
    IF ws(s, m.pos) <= Len(s) /\ s[ws(s, m.pos)] = INLINE_TABLE_OPEN
    THEN [m EXCEPT !.mode = "table", !.pos = ws(s, m.pos),
                   !.check = Top(m).check,
                   !.stack[Len(m.stack)].eq = m.pos]
    ELSE IF v.st = "Ok"
    THEN [m EXCEPT !.mode = "value", !.pos = v.pos, !.val = v.val,
                   !.stack[Len(m.stack)].eq = m.pos]
    ELSE Fail(m, v.pos, v.cause)

\* keyval after its key k: cut((one_of(KEYVAL_SEP), (ws, value, ws))); a
\* key that fails ends the list of separated_list0, before the separator
ReadKeyvalSep(s, m, k) ==
    IF k.st = "Error"
    THEN [m EXCEPT !.mode = "close",
                   !.pos = IF m.sep THEN m.pos - 1 ELSE m.pos]
    ELSE IF k.st = "Failure" THEN Fail(m, k.pos, k.cause)
    ELSE IF ~(k.pos <= Len(s) /\ s[k.pos] = KEYVAL_SEP)
    THEN Fail(m, k.pos, Grammar)
    ELSE ReadValue(s, [m EXCEPT !.pos = k.pos + 1,
                                !.stack[Len(m.stack)].key = k.val],
                   integer(s, ws(s, k.pos + 1)))

ReadKeyval(s, m) == ReadKeyvalSep(s, m, key(s, m.pos))

\* the pair keyval makes of the key f.key and the value v that ends at i
Pair(s, f, v, i) ==
    [path |-> SubSeq(f.key, 1, Len(f.key) - 1),
     kv   |-> [key   |-> f.key[Len(f.key)],
               value |-> decorated(v, SubSeq(s, f.eq, ws(s, f.eq) - 1),
                                   SubSeq(s, i, ws(s, i) - 1))]]

\* the end of keyval and the next round of separated_list0
EndValue(s, m) ==
    [m EXCEPT
        !.stack[Len(m.stack)].pairs = Append(@, Pair(s, Top(m), m.val, m.pos)),
        !.sep = ws(s, m.pos) <= Len(s) /\ s[ws(s, m.pos)] = INLINE_TABLE_SEP,
        !.mode = IF ws(s, m.pos) <= Len(s) /\ s[ws(s, m.pos)] = INLINE_TABLE_SEP
                 THEN "keyval" ELSE "close",
        !.pos = IF ws(s, m.pos) <= Len(s) /\ s[ws(s, m.pos)] = INLINE_TABLE_SEP
                THEN ws(s, m.pos) + 1 ELSE ws(s, m.pos)]

\* the return of inline_table with the table t: to the caller when this
\* was the first call, else as the value of an entry of the table around
Return(m, p, t) ==
    IF Len(m.stack) = 1
    THEN [m EXCEPT !.st = "Ok", !.pos = p, !.val = t, !.stack = <<>>]
    ELSE [m EXCEPT !.mode = "value", !.pos = p, !.val = ValueInlineTable(t),
                   !.stack = SubSeq(@, 1, Len(@) - 1)]

\* the ws of inline_table_keyvals, map_res(table_from_pairs) and the
\* closing brace, both under cut()
CloseTableWith(s, m, r) ==
    IF r.st = "Err" THEN Fail(m, Top(m).open + 1, r.err)
    ELSE IF ~(ws(s, m.pos) <= Len(s) /\ s[ws(s, m.pos)] = INLINE_TABLE_CLOSE)
    THEN Fail(m, ws(s, m.pos), Grammar)
    ELSE Return(m, ws(s, m.pos) + 1, r.root)

CloseTable(s, m) ==
    CloseTableWith(s, m,
        table_from_pairs(Top(m).pairs, SubSeq(s, m.pos, ws(s, m.pos) - 1)))

\* the parser one place further
TableStep(s, m) ==
    IF m.mode = "table" THEN EnterTable(s, m)
    ELSE IF m.mode = "keyval" THEN ReadKeyval(s, m)
    ELSE IF m.mode = "value" THEN EndValue(s, m)
    ELSE CloseTable(s, m)

\* what the parser returns to the caller
Returned(m) ==
    IF m.st = "Ok" THEN POk(m.pos, m.val)
    ELSE [st |-> m.st, pos |-> m.pos, cause |-> m.cause]

\* inline-table = inline-table-open inline-table-keyvals inline-table-close
inline_table(check, s, i) ==
    Returned(Loop(LAMBDA m : TableStep(s, m), Call(check, i), 2 * Len(s) + 2))

\* value: an inline table after an opening brace, an integer otherwise
value(check, s, i) ==
    IF i <= Len(s) /\ s[i] = INLINE_TABLE_OPEN
    THEN Then(inline_table(check, s, i), LAMBDA t :
             POk(t.pos, ValueInlineTable(t.val)))
    ELSE integer(s, i)

(***************************************************************************)
(* The text of an inline table (Display of InlineTable): the keys and the  *)
(* values with their spellings and their decor, a table made by a dotted   *)
(* key written as the key paths of its entries.                            *)
(***************************************************************************)
DEFAULT_INLINE_KEY_DECOR == [prefix |-> <<" ">>, suffix |-> <<" ">>]
DEFAULT_VALUE_DECOR == [prefix |-> <<" ">>, suffix |-> <<>>]
DEFAULT_TRAILING_VALUE_DECOR == [prefix |-> <<" ">>, suffix |-> <<" ">>]

OrDefault(o, d) == IF o = None THEN d ELSE o[1]

\* StringStyle::OnelineSingle
OnelineSingle == "OnelineSingle"

\* encode::to_string_repr as to_key_repr calls it: the quoted spelling of a
\* string on one line, the characters of the string between apostrophes
to_string_repr(str, style, literal) ==
    <<APOSTROPHE>> \o str \o <<APOSTROPHE>>

\* a to_key_repr that leaves the empty string bare
to_key_repr_EmptyBare(k) ==
    IF \A n \in 1..Len(k) : is_unquoted_char(k[n])
    THEN k
    ELSE to_string_repr(k, Some(OnelineSingle), Some(FALSE))

\* the spelling a key without one gets
to_key_repr(k) ==
    IF (\A n \in 1..Len(k) : is_unquoted_char(k[n])) /\ k # <<>>
    THEN k
    ELSE to_string_repr(k, Some(OnelineSingle), Some(FALSE))

\* Key::to_repr
to_repr(k) == IF k.repr = None THEN to_key_repr(k.key) ELSE k.repr[1]

\* a fmt that keeps the representation the key has
fmt_KeepRepr(k) == [k EXCEPT !.repr = Some(to_repr(k)), !.decor = DecorDefault]

\* Key::fmt and KeyMut::fmt
fmt(k) == [k EXCEPT !.repr = Some(to_key_repr(k.key)), !.decor = DecorDefault]

\* a key with its decor
EncodeKey(k, d) ==
    OrDefault(k.decor.prefix, d.prefix) \o to_repr(k)
        \o OrDefault(k.decor.suffix, d.suffix)

\* a key path from segment n on, d the decor of a path without one
RECURSIVE EncodeKeyPath(_, _, _)
EncodeKeyPath(path, n, d) ==
    IF n > Len(path) THEN <<>>
    ELSE (IF n = 1 THEN <<>> ELSE <<DOT_SEP>>)
         \o EncodeKey(path[n],
                      [prefix |-> IF n = 1 THEN d.prefix ELSE <<>>,
                       suffix |-> IF n = Len(path) THEN d.suffix ELSE <<>>])
         \o EncodeKeyPath(path, n + 1, d)

\* InlineTable::get_values: the (key path, value) pairs of the table, the
\* entries of a dotted table in the place of the table
RECURSIVE AppendValues(_, _, _)
AppendValues(items, n, parent) ==
    IF n > Len(items) THEN <<>>
    ELSE (IF items[n].value.type = "inline table"
             /\ items[n].value.table.dotted
          THEN AppendValues(items[n].value.table.items, 1,
                            Append(parent, items[n].key))
          ELSE <<[path  |-> Append(parent, items[n].key),
                  value |-> items[n].value]>>)
         \o AppendValues(items, n + 1, parent)

get_values(t) == AppendValues(t.items, 1, <<>>)

RECURSIVE EncodeTable(_)
RECURSIVE EncodeChildren(_, _)

\* a value with its decor
EncodeValue(v, d) ==
    OrDefault(v.decor.prefix, d.prefix)
        \o (IF v.type = "inline table" THEN EncodeTable(v.table) ELSE v.repr)
        \o OrDefault(v.decor.suffix, d.suffix)

EncodeChildren(children, n) ==
    IF n > Len(children) THEN <<>>
    ELSE (IF n = 1 THEN <<>> ELSE <<INLINE_TABLE_SEP>>)
         \o EncodeKeyPath(children[n].path, 1, DEFAULT_INLINE_KEY_DECOR)
         \o <<KEYVAL_SEP>>
         \o EncodeValue(children[n].value,
                        IF n = Len(children) THEN DEFAULT_TRAILING_VALUE_DECOR
                        ELSE DEFAULT_VALUE_DECOR)
         \o EncodeChildren(children, n + 1)

EncodeTable(t) ==
    <<INLINE_TABLE_OPEN>> \o t.preamble
        \o EncodeChildren(get_values(t), 1) \o <<INLINE_TABLE_CLOSE>>

\* InlineTable::to_string
Render(t) == EncodeTable(t)

(***************************************************************************)
(* parser/mod.rs: parse_key.                                               *)
(***************************************************************************)
\* parse_key without the end-of-input check of finish()
parse_key_NoEof(raw) ==
    LET r == simple_key(raw, 1)
    IN  IF r.st = "Ok"
        THEN [st |-> "Ok",
              val |-> with_repr_unchecked(KeyNew(r.val.key), r.val.raw)]
        ELSE [st |-> "Err", pos |-> r.pos, cause |-> r.cause]

parse_key(raw) ==
    LET r == Finish(raw, simple_key(raw, 1))
    IN  IF r.st = "Ok"
        THEN [st |-> "Ok",
              val |-> with_repr_unchecked(KeyNew(r.val.key), r.val.raw)]
        ELSE r

\* Key::try_parse_simple
try_parse_simple(s) == parse_key(s)

(***************************************************************************)
(* parser/mod.rs: parse_value.                                             *)
(***************************************************************************)
\* a table with the decor of all its keys and values cleared
RECURSIVE ClearedBelow(_)
ClearedBelow(t) ==
    [t EXCEPT !.items =
        [n \in 1..Len(t.items) |->
            [key   |-> decor_clear(t.items[n].key),
             value |-> IF t.items[n].value.type = "inline table"
                       THEN [t.items[n].value EXCEPT
                               !.decor = DecorDefault,
                               !.table = ClearedBelow(@)]
                       ELSE [t.items[n].value EXCEPT !.decor = DecorDefault]]]]

\* Value::decor_mut().clear()
value_decor_clear(v) == [v EXCEPT !.decor = DecorDefault]

\* a parse_value that clears the decor at every level
parse_value_ClearNested(raw) ==
    LET r == Finish(raw, value(RecursionCheckDefault, raw, 1))
    IN  IF r.st # "Ok" THEN r
        ELSE IF r.val.type = "inline table"
        THEN [st |-> "Ok",
              val |-> [value_decor_clear(r.val) EXCEPT
                         !.table = ClearedBelow(@)]]
        ELSE [st |-> "Ok", val |-> value_decor_clear(r.val)]

parse_value(raw) ==
    LET r == Finish(raw, value(RecursionCheckDefault, raw, 1))
    IN  IF r.st = "Ok"
        THEN [st |-> "Ok", val |-> value_decor_clear(r.val)]
        ELSE r

\* impl FromStr for Key
from_str(s) == try_parse_simple(s)

(***************************************************************************)
(* The key texts handed to parse_key and to Key::from_str: a caller types  *)
(* a text one character at a time and then parses it.                      *)
(***************************************************************************)
KeyAlphabet == {"a", "-", APOSTROPHE, QUOTATION_MARK, BACKSLASH, DOT_SEP, " "}

NoResult == [st |-> "None"]

InitKey ==
    /\ input = <<>>
    /\ op = "typing"
    /\ result = NoResult
    /\ parses = <<>>
    /\ DEPTH = 0
    /\ output = <<>>
    /\ used = 0
    /\ keys = <<>>

TypeKeyChar ==
    /\ op = "typing"
    /\ Len(input) < MaxKeyLen
    /\ \E c \in KeyAlphabet : input' = Append(input, c)
    /\ UNCHANGED <<op, result, output, used, keys, parses, DEPTH>>

ParseKey ==
    /\ op = "typing"
    /\ result' = parse_key(input)
    /\ op' = "parse_key"
    /\ UNCHANGED <<input, output, used, keys, parses, DEPTH>>

KeyFromStr ==
    /\ op = "typing"
    /\ result' = from_str(input)
    /\ op' = "from_str"
    /\ UNCHANGED <<input, output, used, keys, parses, DEPTH>>

NextKey == TypeKeyChar \/ ParseKey \/ KeyFromStr

SpecKey == InitKey /\ [][NextKey]_vars

(***************************************************************************)
(* Two keys, made by parse_key or by Key::new, and the operations that     *)
(* change their decor.                                                     *)
(***************************************************************************)
KeySpellings ==
    {<<"a">>, <<APOSTROPHE, "a", APOSTROPHE>>,
     <<QUOTATION_MARK, "a", QUOTATION_MARK>>, <<"b">>, <<"a", "b">>,
     <<APOSTROPHE, "a", " ", APOSTROPHE>>,
     <<QUOTATION_MARK, QUOTATION_MARK>>, <<"B">>}

KeyPool ==
    {parse_key(t).val : t \in KeySpellings} \cup
    {KeyNew(d) : d \in {<<"a">>, <<"a", " ">>, <<>>, <<"Z", "-", "_", "9">>,
                        <<"a", APOSTROPHE>>}}

DecorPool == {DecorNew(<<" ">>, <<>>), DecorNew(<<>>, <<" ">>)}

InitKeyOps ==
    /\ input = <<>>
    /\ op = "keys"
    /\ result = NoResult
    /\ parses = <<>>
    /\ DEPTH = 0
    /\ output = <<FALSE, FALSE>>
    /\ used = 0
    /\ keys \in {<<k1, k2>> : k1 \in KeyPool, k2 \in KeyPool}

\* output[n]: key n has been through fmt and was not changed since; used is
\* the key the last operation was about
KeyWithDecor ==
    /\ \E n \in DOMAIN keys, d \in DecorPool :
           /\ keys' = [keys EXCEPT ![n] = with_decor(keys[n], d)]
           /\ output' = [output EXCEPT ![n] = FALSE]
    /\ op' = "with_decor"
    /\ UNCHANGED <<input, result, used, parses, DEPTH>>

KeyDecorClear ==
    /\ \E n \in DOMAIN keys :
           keys' = [keys EXCEPT ![n] = decor_clear(keys[n])]
    /\ op' = "decor_clear"
    /\ UNCHANGED <<input, result, output, used, parses, DEPTH>>

\* Key::to_repr and KeyMut::to_repr
KeyToRepr ==
    /\ \E n \in DOMAIN keys :
           /\ result' = [st |-> "Ok", val |-> to_repr(keys[n])]
           /\ used' = n
    /\ op' = "to_repr"
    /\ UNCHANGED <<input, output, keys, parses, DEPTH>>

\* Key::fmt and KeyMut::fmt; result keeps the key as it was before
KeyFmt ==
    /\ \E n \in DOMAIN keys :
           /\ keys' = [keys EXCEPT ![n] = fmt(keys[n])]
           /\ result' = [st |-> "before", val |-> keys[n],
                         formatted |-> output[n]]
           /\ output' = [output EXCEPT ![n] = TRUE]
           /\ used' = n
    /\ op' = "fmt"
    /\ UNCHANGED <<input, parses, DEPTH>>

NextKeyOps == KeyWithDecor \/ KeyDecorClear \/ KeyToRepr \/ KeyFmt

SpecKeyOps == InitKeyOps /\ [][NextKeyOps]_vars

\* C5: equality, ordering and hashing of two keys are those of their
\* decoded strings, whatever representation and decor the keys carry.
C5_KeyIdentityIsDecodedString ==
    \A m \in DOMAIN keys, n \in DOMAIN keys :
        /\ KeyEq(keys[m], keys[n]) <=> (keys[m].key = keys[n].key)
        /\ KeyCmp(keys[m], keys[n]) = StrCmp(keys[m].key, keys[n].key)
        /\ KeyCmp(keys[m], keys[n]) = "Equal" <=> KeyEq(keys[m], keys[n])
        /\ KeyEq(keys[m], keys[n]) => KeyHash(keys[m]) = KeyHash(keys[n])

\* two keys of different spelling and decor that are equal
C5_Witness ==
    /\ op = "with_decor"
    /\ Len(keys) = 2
    /\ keys[1].repr # keys[2].repr
    /\ keys[1].decor # keys[2].decor
    /\ KeyEq(keys[1], keys[2])
    /\ KeyCmp(keys[1], keys[2]) = "Equal"

(***************************************************************************)
(* The texts handed to inline_table: the text of an inline table is typed  *)
(* piece by piece, read by inline_table and written back by to_string.     *)
(***************************************************************************)
\* the spellings of the key segments, bare, literal and basic, each with
\* the string it stands for
KeyTexts ==
    { [text |-> <<"a">>, key |-> <<"a">>],
      [text |-> <<APOSTROPHE, "a", APOSTROPHE>>, key |-> <<"a">>],
      [text |-> <<QUOTATION_MARK, "b", QUOTATION_MARK>>, key |-> <<"b">>] }

\* the texts of the values: an integer, and a table in braces with the one
\* entry b = 1 and blanks
ValueTexts ==
    { [text |-> <<"1">>, type |-> "integer"],
      [text |-> <<" ", "{", " ", "b", " ", "=", " ", "1", " ", "}", " ">>,
       type |-> "inline table"] }

\* the entry written inside the braces of the table of ValueTexts
InnerKey == [text |-> <<"b">>, key |-> <<"b">>]

\* the characters of the texts that begin with no brace
IntegerAlphabet == {"1", "2", " "}

\* keys holds the entries typed so far: of each the strings and the
\* spellings of the segments of its key path and the type of its value.
\* A text begins with the brace of an inline table or is made of
\* IntegerAlphabet
InitTable ==
    /\ \/ input = <<INLINE_TABLE_OPEN>> /\ op = "open"
       \/ input = <<>> /\ op = "digits"
    /\ result = NoResult
    /\ parses = <<>>
    /\ DEPTH = 0
    /\ output = <<>>
    /\ used = 0
    /\ keys = <<>>

TypeBlank ==
    /\ op \in {"open", "blank"}
    /\ used = 0
    /\ Len(input) <= MaxBlanks
    /\ input' = Append(input, " ")
    /\ op' = "blank"
    /\ UNCHANGED <<result, output, used, keys, parses, DEPTH>>

TypeKeySegment ==
    /\ op \in {"open", "dot"}
    /\ used < MaxKeys
    /\ \E k \in KeyTexts :
          /\ input' = input \o k.text
          /\ keys' = IF op = "open"
                     THEN Append(keys, [path |-> <<k.key>>, spell |-> <<k.text>>,
                                        type |-> "none"])
                     ELSE [keys EXCEPT ![Len(keys)].path = Append(@, k.key),
                                       ![Len(keys)].spell = Append(@, k.text)]
    /\ op' = "key"
    /\ used' = used + 1
    /\ UNCHANGED <<result, output, parses, DEPTH>>

TypeDot ==
    /\ op = "key"
    /\ used < MaxKeys
    /\ input' = Append(input, DOT_SEP)
    /\ op' = "dot"
    /\ UNCHANGED <<result, output, used, keys, parses, DEPTH>>

TypeValue ==
    /\ op = "key"
    /\ \E v \in ValueTexts :
          /\ input' = Append(input, KEYVAL_SEP) \o v.text
          /\ keys' = [keys EXCEPT ![Len(keys)].type = v.type]
    /\ op' = "val"
    /\ UNCHANGED <<result, output, used, parses, DEPTH>>

TypeSep ==
    /\ op = "val"
    /\ input' = Append(input, INLINE_TABLE_SEP)
    /\ op' = "open"
    /\ UNCHANGED <<result, output, used, keys, parses, DEPTH>>

TypeClose ==
    /\ op \in {"open", "blank", "val"}
    /\ input' = Append(input, INLINE_TABLE_CLOSE)
    /\ op' = "closed"
    /\ UNCHANGED <<result, output, used, keys, parses, DEPTH>>

TypeInteger ==
    /\ op = "digits"
    /\ Len(input) < MaxBlanks
    /\ \E c \in IntegerAlphabet : input' = Append(input, c)
    /\ UNCHANGED <<op, result, output, used, keys, parses, DEPTH>>

\* parse_value(input)
ParseValue ==
    /\ op \in {"closed", "digits"}
    /\ result' = parse_value(input)
    /\ op' = "parse_value"
    /\ UNCHANGED <<input, output, used, keys, parses, DEPTH>>

\* inline_table(Default::default()).parse(new_input(input)).finish()
ParseInlineTable ==
    /\ op = "closed"
    /\ result' = Finish(input, inline_table(RecursionCheckDefault, input, 1))
    /\ op' = "inline_table"
    /\ UNCHANGED <<input, output, used, keys, parses, DEPTH>>

\* InlineTable::to_string of the table that was read
TableToString ==
    /\ op = "inline_table"
    /\ result.st = "Ok"
    /\ output' = Render(result.val)
    /\ op' = "to_string"
    /\ UNCHANGED <<input, result, used, keys, parses, DEPTH>>

NextTable ==
    \/ TypeBlank
    \/ TypeKeySegment
    \/ TypeDot
    \/ TypeValue
    \/ TypeSep
    \/ TypeClose
    \/ TypeInteger
    \/ ParseValue
    \/ ParseInlineTable
    \/ TableToString

SpecTable == InitTable /\ [][NextTable]_vars

(***************************************************************************)
(* Key paths and nested inline tables that grow up to the ceiling of the   *)
(* recursion guard and beyond it.                                          *)
(***************************************************************************)
InitDepth ==
    /\ \/ input = <<"a">> /\ op = "path"
       \/ input = <<"{", "}">> /\ op = "nest"
       \/ input = <<"{", "a", "=", "1", "}">> /\ op = "table"
    /\ result = NoResult
    /\ parses = <<>>
    /\ DEPTH = 0
    /\ output = <<>>
    /\ used = 1
    /\ keys = <<>>

\* one more segment at the end of the key path
AddSegment ==
    /\ op = "path"
    /\ used < MaxDepth
    /\ input' = input \o <<DOT_SEP, "a">>
    /\ used' = used + 1
    /\ UNCHANGED <<op, result, output, keys, parses, DEPTH>>

\* the table becomes the value of the one entry of a new table
AddLevel ==
    /\ op = "nest"
    /\ used < MaxDepth
    /\ input' = <<"{", "a", "=">> \o input \o <<"}">>
    /\ used' = used + 1
    /\ UNCHANGED <<op, result, output, keys, parses, DEPTH>>

\* one more segment in front of the key path of the entry of the table
AddTableSegment ==
    /\ op = "table"
    /\ used < MaxDepth
    /\ input' = <<"{", "a", DOT_SEP>> \o Tail(input)
    /\ used' = used + 1
    /\ UNCHANGED <<op, result, output, keys, parses, DEPTH>>

ParseKeyPath ==
    /\ op = "path"
    /\ result' = parse_key_path(input)
    /\ op' = "parse_key_path"
    /\ UNCHANGED <<input, output, used, keys, parses, DEPTH>>

ParseNested ==
    /\ op = "nest"
    /\ result' = Finish(input, inline_table(RecursionCheckDefault, input, 1))
    /\ op' = "inline_table"
    /\ UNCHANGED <<input, output, used, keys, parses, DEPTH>>

ParseTablePath ==
    /\ op = "table"
    /\ result' = Finish(input, inline_table(RecursionCheckDefault, input, 1))
    /\ op' = "keyval"
    /\ UNCHANGED <<input, output, used, keys, parses, DEPTH>>

NextDepth ==
    \/ AddSegment
    \/ AddLevel
    \/ AddTableSegment
    \/ ParseKeyPath
    \/ ParseNested
    \/ ParseTablePath

SpecDepth == InitDepth /\ [][NextDepth]_vars

(***************************************************************************)
(* parser/mod.rs: trace, around inline_table.  DEPTH is the counter all    *)
(* the threads share: the call of a traced parser adds one to it and       *)
(* writes a line indented by twice the count it found, its return takes    *)
(* one away.                                                               *)
(***************************************************************************)
\* what the step from m to n of a traced parser does: the parser as it is
\* after the step, the calls that began (1), ended (-1) or neither, and
\* the indentation of the line written at a call
Traced(m, n, depth) ==
    [m      |-> n,
     calls  |-> IF m.mode = "table" THEN 1
                ELSE IF n.st \in {"More", "Ok"} /\ Len(n.stack) < Len(m.stack)
                THEN -1 ELSE 0,
     indent |-> IF m.mode = "table" THEN depth * 2 ELSE 0]

\* a parser that takes the shared counter for its recursion guard
TracedStep_SharedGuard(s, m, depth) ==
    Traced(m, TableStep(s, [m EXCEPT !.check = [current |-> depth]]), depth)

\* one step of inline_table under trace, depth being DEPTH as the step
\* finds it
TracedStep(s, m, depth) == Traced(m, TableStep(s, m), depth)

(***************************************************************************)
(* Two threads that each read an inline table of their own.  A thread      *)
(* takes one step of its parser at a time; parses holds of each thread the *)
(* text, the levels of tables in it, the parser, the traced calls that     *)
(* have not returned and what the parse returned; the lines trace writes   *)
(* are not kept.                                                           *)
(***************************************************************************)
\* n tables around an empty one, each the value of the key a
NestText(n) ==
    [i \in 1..(4 * n + 2) |->
        IF i <= 3 * n THEN <<"{", "a", "=">>[((i - 1) % 3) + 1]
        ELSE IF i = 3 * n + 1 THEN "{" ELSE "}"]

ParseTexts ==
    { [text |-> NestText(1), levels |-> 2],
      \* {a={a={},b={}},b={}}
      [text |-> <<"{", "a", "=", "{", "a", "=", "{", "}", ",", "b", "=", "{",
                  "}", "}", ",", "b", "=", "{", "}", "}">>, levels |-> 3],
      \* {a.a={},b=1}
      [text |-> <<"{", "a", ".", "a", "=", "{", "}", ",", "b", "=", "1", "}">>,
       levels |-> 2],
      [text |-> NestText(RecursionLimit - 2), levels |-> RecursionLimit - 1],
      [text |-> NestText(RecursionLimit - 1), levels |-> RecursionLimit] }

\* the thread before its first step
Thread(t) ==
    [text |-> t.text, levels |-> t.levels,
     m |-> Call(RecursionCheckDefault, 1), open |-> 0, result |-> NoResult]

\* the texts of the two threads: at most the first is as deep as the guard
\* allows or deeper
ParallelTexts ==
    { t \in ParseTexts \X ParseTexts : t[2].levels < RecursionLimit - 1 }

InitParallel ==
    /\ input = <<>>
    /\ op = "parallel"
    /\ result = NoResult
    /\ output = <<>>
    /\ used = 0
    /\ keys = <<>>
    /\ DEPTH = 0
    /\ parses \in { <<Thread(t[1]), Thread(t[2])>> : t \in ParallelTexts }

\* thread p takes a step of its parser
ThreadStep(p) ==
    /\ parses[p].m.st = "More"
    /\ parses' = [parses EXCEPT
          ![p].m = TracedStep(parses[p].text, parses[p].m, DEPTH).m,
          ![p].open = @ + TracedStep(parses[p].text, parses[p].m, DEPTH).calls]
    /\ DEPTH' = DEPTH + TracedStep(parses[p].text, parses[p].m, DEPTH).calls
    /\ op' = "parallel"
    /\ UNCHANGED <<input, result, output, used, keys>>

\* after an error the traced calls of thread p return one by one
ThreadUnwind(p) ==
    /\ parses[p].m.st \in {"Error", "Failure"}
    /\ parses[p].open > 0
    /\ parses' = [parses EXCEPT ![p].open = @ - 1]
    /\ DEPTH' = DEPTH - 1
    /\ op' = "parallel"
    /\ UNCHANGED <<input, result, output, used, keys>>

\* the parse of thread p returns to its caller
ThreadReturn(p) ==
    /\ parses[p].m.st # "More"
    /\ parses[p].open = 0
    /\ parses[p].result = NoResult
    /\ parses' = [parses EXCEPT
          ![p].result = Finish(parses[p].text, Returned(parses[p].m))]
    /\ op' = "returned"
    /\ used' = p
    /\ UNCHANGED <<input, result, output, keys, DEPTH>>

NextParallel ==
    \/ \E p \in DOMAIN parses : ThreadStep(p)
    \/ \E p \in DOMAIN parses : ThreadUnwind(p)
    \/ \E p \in DOMAIN parses : ThreadReturn(p)

SpecParallel == InitParallel /\ [][NextParallel]_vars

(***************************************************************************)
(* The texts handed to date_time: dates, times and offsets put together    *)
(* from fields at and beyond the ends of their ranges.                     *)
(***************************************************************************)
YearTexts == {<<"1", "9", "7", "9">>}

MonthTexts == {<<"0", "0">>, <<"1", "2">>, <<"1", "3">>}

DayTexts == {<<"0", "0">>, <<"3", "1">>, <<"3", "2">>}

HourTexts == {<<"0", "0">>, <<"2", "3">>, <<"2", "4">>}

MinuteTexts == {<<"5", "9">>, <<"6", "0">>}

SecondTexts == {<<"6", "0">>, <<"6", "1">>}

FracTexts == {<<>>, <<".", "5">>}

DateTexts ==
    {y \o <<"-">> \o m \o <<"-">> \o d :
        y \in YearTexts, m \in MonthTexts, d \in DayTexts}

TimeTexts ==
    {h \o <<":">> \o m \o <<":">> \o c \o f :
        h \in HourTexts, m \in MinuteTexts, c \in SecondTexts, f \in FracTexts}

OffsetTexts ==
    {<<"Z">>, <<"z">>} \cup
    {<<g>> \o h \o <<":">> \o m :
        g \in {"+", "-"}, h \in HourTexts, m \in MinuteTexts}

\* used counts the parts written so far: a date, then a time, then an offset
InitDateTime ==
    /\ input = <<>>
    /\ op = "typing"
    /\ result = NoResult
    /\ parses = <<>>
    /\ DEPTH = 0
    /\ output = <<>>
    /\ used = 0
    /\ keys = <<>>

TypeDate ==
    /\ op = "typing"
    /\ used = 0
    /\ \E d \in DateTexts : input' = d
    /\ used' = 1
    /\ UNCHANGED <<op, result, output, keys, parses, DEPTH>>

TypeTime ==
    /\ op = "typing"
    /\ used <= 1
    /\ \E l \in TIME_DELIM, t \in TimeTexts :
           input' = IF used = 1 THEN input \o <<l>> \o t ELSE t
    /\ used' = 2
    /\ UNCHANGED <<op, result, output, keys, parses, DEPTH>>

TypeOffset ==
    /\ op = "typing"
    /\ used = 2
    /\ \E o \in OffsetTexts : input' = input \o o
    /\ used' = 3
    /\ UNCHANGED <<op, result, output, keys, parses, DEPTH>>

DateTime ==
    /\ op = "typing"
    /\ result' = date_time(input, 1)
    /\ op' = "date_time"
    /\ UNCHANGED <<input, output, used, keys, parses, DEPTH>>

NextDateTime == TypeDate \/ TypeTime \/ TypeOffset \/ DateTime

SpecDateTime == InitDateTime /\ [][NextDateTime]_vars

(***************************************************************************)
(* The texts handed to time_secfrac: a point and digits typed one by one.  *)
(***************************************************************************)
FracDigits == {"0", "5", "9"}

InitSecfrac ==
    /\ input = <<".">>
    /\ op = "typing"
    /\ result = NoResult
    /\ parses = <<>>
    /\ DEPTH = 0
    /\ output = <<>>
    /\ used = 0
    /\ keys = <<>>

TypeFracDigit ==
    /\ op = "typing"
    /\ used < MaxFracDigits
    /\ \E c \in FracDigits : input' = Append(input, c)
    /\ used' = used + 1
    /\ UNCHANGED <<op, result, output, keys, parses, DEPTH>>

TimeSecfrac ==
    /\ op = "typing"
    /\ result' = time_secfrac(input, 1)
    /\ op' = "time_secfrac"
    /\ UNCHANGED <<input, output, used, keys, parses, DEPTH>>

NextSecfrac == TypeFracDigit \/ TimeSecfrac

SpecSecfrac == InitSecfrac /\ [][NextSecfrac]_vars

(***************************************************************************)
(* The texts handed to time_offset: two numeric offsets, written one after *)
(* the other and then read.                                                *)
(***************************************************************************)
NumOffsetTexts ==
    {<<g>> \o h \o <<":">> \o m :
        g \in {"+", "-"},
        h \in HourTexts \cup {<<"0", "1">>},
        m \in MinuteTexts \cup {<<"0", "0">>, <<"3", "0">>}}

InitOffset ==
    /\ input = <<>>
    /\ op = "typing"
    /\ result = NoResult
    /\ parses = <<>>
    /\ DEPTH = 0
    /\ output = <<>>
    /\ used = 0
    /\ keys = <<>>

TypeNumOffset ==
    /\ op = "typing"
    /\ Len(input) < 2
    /\ \E t \in NumOffsetTexts : input' = Append(input, t)
    /\ UNCHANGED <<op, result, output, used, keys, parses, DEPTH>>

\* time_offset on each of the two texts
TimeOffset ==
    /\ op = "typing"
    /\ Len(input) = 2
    /\ result' = <<time_offset(input[1], 1), time_offset(input[2], 1)>>
    /\ op' = "time_offset"
    /\ UNCHANGED <<input, output, used, keys, parses, DEPTH>>

NextOffset == TypeNumOffset \/ TimeOffset

SpecOffset == InitOffset /\ [][NextOffset]_vars

(***************************************************************************)
(* Claims about the date-time grammar.                                     *)
(***************************************************************************)
IsDigitAt(s, i) == i >= 1 /\ i <= Len(s) /\ s[i] \in DIGIT

IsCharAt(s, i, c) == i >= 1 /\ i <= Len(s) /\ s[i] = c

\* the value of the two digits at i
Num2(s, i) == DigitVal(s[i]) * 10 + DigitVal(s[i + 1])

\* 4DIGIT "-" 2DIGIT "-" 2DIGIT at position i
DateShapeAt(s, i) ==
    /\ \A n \in {0, 1, 2, 3, 5, 6, 8, 9} : IsDigitAt(s, i + n)
    /\ IsCharAt(s, i + 4, "-")
    /\ IsCharAt(s, i + 7, "-")

\* 2DIGIT ":" 2DIGIT ":" 2DIGIT at position i
TimeShapeAt(s, i) ==
    /\ \A n \in {0, 1, 3, 4, 6, 7} : IsDigitAt(s, i + n)
    /\ IsCharAt(s, i + 2, ":")
    /\ IsCharAt(s, i + 5, ":")

\* ( "+" / "-" ) 2DIGIT ":" 2DIGIT at position i
NumOffsetShapeAt(s, i) ==
    /\ i >= 1 /\ i <= Len(s) /\ s[i] \in {"+", "-"}
    /\ \A n \in {1, 2, 4, 5} : IsDigitAt(s, i + n)
    /\ IsCharAt(s, i + 3, ":")

\* where the time of a text starts: after the date and delimiter, or at 1
TimeStart(s) == IF DateShapeAt(s, 1) THEN 12 ELSE 1

\* the text has a time where the grammar reads one
HasTimeText(s) ==
    /\ DateShapeAt(s, 1) => (Len(s) >= 11 /\ s[11] \in TIME_DELIM)
    /\ TimeShapeAt(s, TimeStart(s))

\* where the offset of a text starts: after the time and its fraction
OffsetStart(s) ==
    IF IsCharAt(s, TimeStart(s) + 8, ".") /\ IsDigitAt(s, TimeStart(s) + 9)
    THEN TakeWhile(s, TimeStart(s) + 9, DIGIT)
    ELSE TimeStart(s) + 8

\* the text read by a successful parse
Consumed(s, r) == SubSeq(s, 1, r.pos - 1)

\* the text ends with an offset
EndsWithOffset(s) ==
    \/ (s # <<>> /\ s[Len(s)] \in {"Z", "z"})
    \/ NumOffsetShapeAt(s, Len(s) - 5)

IsSome(o) == o # None

\* C7: a Datetime returned by date_time has one of the four shapes, the one
\* of the text that was read: it has a date iff the text starts with one, a
\* time iff a time was read and an offset iff an offset was read; an offset
\* comes only with both a date and a time.  Any of the three delimiters in
\* place of the one written gives the same result.
C7_DatetimeShapes ==
    op = "date_time" =>
        /\ IsOk(result) =>
            LET dt == result.val
                c  == Consumed(input, result)
            IN  /\ <<IsSome(dt.date), IsSome(dt.time), IsSome(dt.offset)>> \in
                       {<<TRUE, TRUE, TRUE>>, <<TRUE, TRUE, FALSE>>,
                        <<TRUE, FALSE, FALSE>>, <<FALSE, TRUE, FALSE>>}
                /\ IsSome(dt.date) <=> DateShapeAt(input, 1)
                /\ IsSome(dt.time) <=> HasTimeText(c)
                /\ IsSome(dt.offset) <=> (HasTimeText(c) /\ EndsWithOffset(c))
        /\ (DateShapeAt(input, 1) /\ Len(input) >= 11 /\ input[11] \in TIME_DELIM) =>
            \A l \in TIME_DELIM : date_time([input EXCEPT ![11] = l], 1) = result

\* an offset date-time written with a space for delimiter was returned
C7_Witness ==
    /\ op = "date_time"
    /\ IsOk(result)
    /\ Len(input) >= 11
    /\ input[11] = " "
    /\ IsSome(result.val.date) /\ IsSome(result.val.time)
    /\ result.val.offset = Some(OffsetCustom(0 - 23, 59))

\* a local time was returned, the offset after it left unread
C7_WitnessLocalTime ==
    /\ op = "date_time"
    /\ IsOk(result)
    /\ result.val.date = None /\ IsSome(result.val.time)
    /\ result.pos <= Len(input)

\* some field of the text is outside its range
SomeFieldOutOfRange(s) ==
    \/ /\ DateShapeAt(s, 1)
       /\ \/ Num2(s, 6) \notin 1..12
          \/ Num2(s, 9) \notin 1..31
    \/ /\ HasTimeText(s)
       /\ \/ Num2(s, TimeStart(s)) \notin 0..23
          \/ Num2(s, TimeStart(s) + 3) \notin 0..59
          \/ Num2(s, TimeStart(s) + 6) \notin 0..60
    \/ /\ DateShapeAt(s, 1) /\ HasTimeText(s)
       /\ NumOffsetShapeAt(s, OffsetStart(s))
       /\ \/ Num2(s, OffsetStart(s) + 1) \notin 0..23
          \/ Num2(s, OffsetStart(s) + 4) \notin 0..59

\* C8: date_time on a text with a field outside its range fails with the
\* out-of-range error and returns no Datetime, whichever field it is.
C8_OutOfRangeRejected ==
    (op = "date_time" /\ SomeFieldOutOfRange(input)) =>
        (~IsOk(result) /\ result.cause = OutOfRange)

\* 10 to the power n
RECURSIVE Pow10(_)
Pow10(n) == IF n = 0 THEN 1 ELSE 10 * Pow10(n - 1)

Min(a, b) == IF a < b THEN a ELSE b

\* C9: time_secfrac on a point and n >= 1 digits returns the number made of
\* the first min(n, 9) digits times 10^(9 - min(n, 9)), a number of
\* 0..999999999, and never fails.
C9_SecfracTruncated ==
    (op = "time_secfrac" /\ Len(input) >= 2) =>
        LET n == Len(input) - 1
            k == Min(n, 9)
        IN  /\ IsOk(result)
            /\ result.pos = Len(input) + 1
            /\ result.val = ParseDec(SubSeq(input, 2, k + 1)) * Pow10(9 - k)
            /\ result.val \in 0..999999999

\* ten nines were cut to nine and not rounded up
C9_Witness ==
    /\ op = "time_secfrac"
    /\ Len(input) = 11
    /\ \A n \in 2..11 : input[n] = "9"
    /\ IsOk(result)
    /\ result.val = 999999999

\* the minutes from UTC that the text sign hh:mm of a numeric offset says
SignedMinutes(t) ==
    (IF t[1] = "-" THEN -1 ELSE 1) * (Num2(t, 2) * 60 + Num2(t, 5))

\* C17: two numeric offsets that time_offset accepts and that say different
\* minutes from UTC are read as different Offset values.
C17_OffsetsDistinct ==
    (/\ op = "time_offset"
     /\ IsOk(result[1])
     /\ IsOk(result[2])
     /\ SignedMinutes(input[1]) # SignedMinutes(input[2]))
        => result[1].val # result[2].val

\* -hh:mm and +hh:mm of the same digits, not zero, were read as one Offset
C17_SignLost ==
    /\ op = "time_offset"
    /\ IsOk(result[1])
    /\ IsOk(result[2])
    /\ input[1][1] = "-"
    /\ input[2][1] = "+"
    /\ Tail(input[1]) = Tail(input[2])
    /\ SignedMinutes(input[2]) > 0
    /\ result[1].val = result[2].val

\* the three forms of a simple key, stated on the text alone
IsBareKeyText(t) == Len(t) >= 1 /\ \A i \in 1..Len(t) : t[i] \in UNQUOTED_CHAR

IsLiteralKeyText(t) ==
    /\ Len(t) >= 2
    /\ t[1] = APOSTROPHE
    /\ t[Len(t)] = APOSTROPHE
    /\ \A i \in 2..(Len(t) - 1) : t[i] # APOSTROPHE

IsBasicKeyText(t) ==
    /\ Len(t) >= 2
    /\ t[1] = QUOTATION_MARK
    /\ t[Len(t)] = QUOTATION_MARK
    /\ \A i \in 2..(Len(t) - 1) : t[i] = QUOTATION_MARK => t[i - 1] = BACKSLASH

\* C10: parse_key succeeds only when the whole text is one simple key (so
\* not on the empty text, not with a blank before the key, not with any
\* character after it); the key it returns stores the text verbatim as its
\* representation and has empty decor.
C10_ParseKeyWholeInput ==
    (op = "parse_key" /\ result.st = "Ok") =>
        /\ input # <<>>
        /\ input[1] \notin WSCHAR
        /\ IsBareKeyText(input) \/ IsLiteralKeyText(input) \/ IsBasicKeyText(input)
        /\ result.val.repr = Some(input)
        /\ result.val.decor = DecorDefault

\* a quoted key with a blank and a dot inside was parsed
C10_Witness ==
    /\ op = "parse_key"
    /\ result.st = "Ok"
    /\ input = <<APOSTROPHE, " ", DOT_SEP, APOSTROPHE>>
    /\ Get(result.val) = <<" ", DOT_SEP>>

\* a bare key followed by a dot and a second segment was refused
C10_WitnessRefused ==
    /\ op = "parse_key"
    /\ result.st = "Err"
    /\ input = <<"a", DOT_SEP, "a">>

(***************************************************************************)
(* Claims about the representation of a key.                               *)
(***************************************************************************)
\* the string can be written as a bare key
IsBareString(k) ==
    /\ k # <<>>
    /\ \A n \in 1..Len(k) :
          k[n] \in UpperAlpha \cup LowerAlpha \cup DIGIT \cup {"-", "_"}

\* the spelling C12 gives key k
SpellingOf(k) ==
    IF k.repr # None THEN k.repr[1]
    ELSE IF IsBareString(k.key) THEN k.key
    ELSE <<APOSTROPHE>> \o k.key \o <<APOSTROPHE>>

C12_WitnessStored ==
    /\ op = "to_repr"
    /\ keys[used].repr # None
    /\ result.val # to_key_repr(keys[used].key)

\* what C13 says of the key after fmt, the key before it being b and o any
\* other key
Formatted(after, b, o) ==
    /\ Get(after) = Get(b)
    /\ after.decor.prefix = None
    /\ after.decor.suffix = None
    /\ after.repr = Some(to_repr(KeyNew(Get(b))))
    /\ KeyEq(after, b)
    /\ KeyCmp(after, b) = "Equal"
    /\ KeyHash(after) = KeyHash(b)
    /\ KeyEq(after, o) <=> KeyEq(b, o)
    /\ KeyCmp(after, o) = KeyCmp(b, o)
    /\ KeyCmp(o, after) = KeyCmp(o, b)

\* C13: fmt puts in the place of the stored representation the one that a
\* key made of the decoded string alone has, and empties the decor; the
\* decoded string stays, and with it equality, order and hash.  A second
\* fmt changes nothing, and two keys of one decoded string have one
\* representation once both went through fmt.
C13_FmtCanonical ==
    /\ op = "fmt" =>
          /\ \A m \in DOMAIN keys : Formatted(keys[used], result.val, keys[m])
          /\ result.formatted => keys[used] = result.val
    /\ \A m \in DOMAIN keys, n \in DOMAIN keys :
          (output[m] /\ output[n] /\ Get(keys[m]) = Get(keys[n]))
              => keys[m].repr = keys[n].repr

\* fmt took a spelling and a decor away, and the two keys, of one decoded
\* string and two spellings before, are spelled alike
C13_Witness ==
    /\ op = "fmt"
    /\ result.val.repr # None
    /\ result.val.repr # keys[used].repr
    /\ result.val.decor # DecorDefault
    /\ output = <<TRUE, TRUE>>
    /\ Get(keys[1]) = Get(keys[2])
    /\ keys[1].repr = keys[2].repr

\* fmt was applied to a key that had been through it
C13_WitnessTwice ==
    /\ op = "fmt"
    /\ result.formatted
    /\ keys[used] = result.val

\* the text s between two quotation characters q
Surrounded(q, s) == <<q>> \o s \o <<q>>

\* the first of the three readings of s that gives a key: s itself, s as a
\* basic quoted key, s as a literal quoted key; the last error when none does
ThreeAttempts(s) ==
    IF parse_key(s).st = "Ok" THEN parse_key(s)
    ELSE IF parse_key(Surrounded(QUOTATION_MARK, s)).st = "Ok"
    THEN parse_key(Surrounded(QUOTATION_MARK, s))
    ELSE parse_key(Surrounded(APOSTROPHE, s))

\* C11: Key::from_str gives the key of the first of three readings of the
\* text that succeeds (as it stands, between quotation marks, between
\* apostrophes) and an error only when all three fail.
C11_FromStrThreeAttempts ==
    op = "from_str" =>
        /\ result.st = ThreeAttempts(input).st
        /\ result.st = "Ok" => Get(result.val) = Get(ThreeAttempts(input).val)

\* a text that is a key only between quotes was refused
C11_Refused ==
    /\ op = "from_str"
    /\ result.st # "Ok"
    /\ ThreeAttempts(input).st = "Ok"
    /\ Get(ThreeAttempts(input).val) = input

(***************************************************************************)
(* Claims about inline tables.  What inline_table has to make of a text is *)
(* said from the entries that were typed (keys), without the parser.       *)
(***************************************************************************)
\* q is the start of p
IsPrefix(q, p) == Len(q) <= Len(p) /\ SubSeq(p, 1, Len(q)) = q

\* the key path of the innermost value written by entry e, and its spellings
FullPath(e) ==
    IF e.type = "inline table" THEN Append(e.path, InnerKey.key) ELSE e.path

FullSpell(e) ==
    IF e.type = "inline table" THEN Append(e.spell, InnerKey.text) ELSE e.spell

\* the key paths that the entries 1..j give an integer
IntegerPaths(E, j) == { FullPath(E[k]) : k \in 1..j }

\* the key paths that the entries 1..j give a value in their text
WrittenPaths(E, j) ==
    IntegerPaths(E, j) \cup { E[k].path : k \in 1..j }

\* the places in the key path of entry j, before its last segment, where the
\* entries before it have an integer
ConflictPlaces(E, j) ==
    { i \in 1..(Len(E[j].path) - 1) :
        SubSeq(E[j].path, 1, i) \in IntegerPaths(E, j - 1) }

IsTypeConflict(E, j) == ConflictPlaces(E, j) # {}

FirstConflictPlace(E, j) ==
    CHOOSE i \in ConflictPlaces(E, j) : \A k \in ConflictPlaces(E, j) : i <= k

\* the key of entry j is there already: as a key with a value or as a
\* segment on the way to one
IsDuplicate(E, j) ==
    /\ ~IsTypeConflict(E, j)
    /\ \E p \in WrittenPaths(E, j - 1) : IsPrefix(E[j].path, p)

Refused(E) == { j \in 1..Len(E) : IsTypeConflict(E, j) \/ IsDuplicate(E, j) }

\* the first entry that cannot be put into the table, 0 when there is none
FirstRefused(E) ==
    IF Refused(E) = {} THEN 0
    ELSE CHOOSE j \in Refused(E) : \A k \in Refused(E) : j <= k

\* the text ends with a separator before the closing brace
TrailingSep(s) == Len(s) >= 2 /\ s[Len(s) - 1] = INLINE_TABLE_SEP

\* the value at key path p in table t, None when there is none
RECURSIVE ValueAt(_, _)
ValueAt(t, p) ==
    IF IndexOf(t.items, p[1]) = 0 THEN None
    ELSE IF Len(p) = 1 THEN Some(t.items[IndexOf(t.items, p[1])].value)
    ELSE ValueAt(t.items[IndexOf(t.items, p[1])].value.table, Tail(p))

\* every entry that was typed is in the table with the value it was given
HoldsEntries(t, E) ==
    \A j \in 1..Len(E) :
        /\ ValueAt(t, E[j].path) # None
        /\ ValueAt(t, E[j].path)[1].type = E[j].type
        /\ ValueAt(t, FullPath(E[j])) # None
        /\ ValueAt(t, FullPath(E[j]))[1].repr = <<"1">>

\* C1: the text that to_string gives for the table inline_table made of a
\* text is that text, character for character.
C1_RoundTrip == op = "to_string" => output = input

\* the table was read and written back and the text is not the one read
C1_Lost == op = "to_string" /\ output # input

\* what C2 says of the result r of a text with the entries E, the first of
\* them that cannot be put into the table being j
DuplicateKeyIff(E, j, r) ==
    /\ (j # 0 /\ IsDuplicate(E, j))
          <=> (r.st = "Err" /\ r.cause.kind = "DuplicateKey")
    /\ (r.st = "Err" /\ r.cause.kind = "DuplicateKey")
          => r.cause.key = E[j].path[Len(E[j].path)]
    /\ (j = 0 /\ ~TrailingSep(input))
          => (r.st = "Ok" /\ HoldsEntries(r.val, E))
    /\ r.st = "Ok" => j = 0

\* C2: when the key of an entry is already in the table its path leads to,
\* whatever the spellings and however the earlier key came there, the result
\* is the error DuplicateKey with that key and no table; a text whose
\* entries all have new keys is accepted with every entry in the table, and
\* the error is given in no other case.
C2_DuplicateKeyRefused ==
    op = "inline_table" => DuplicateKeyIff(keys, FirstRefused(keys), result)

\* a dotted path into an explicit table names again, in another spelling,
\* the key written inside the braces
C2_Witness ==
    /\ op = "inline_table"
    /\ result.st = "Err"
    /\ result.cause.kind = "DuplicateKey"
    /\ Len(keys) = 2
    /\ keys[1].type = "inline table"
    /\ keys[2].path = FullPath(keys[1])
    /\ keys[2].spell # FullSpell(keys[1])

\* what C3 says of the result r of a text with the entries E, the first of
\* them that cannot be put into the table being j
TypeConflictIff(E, j, r) ==
    /\ (j # 0 /\ IsTypeConflict(E, j))
          <=> (r.st = "Err" /\ r.cause.kind = "DottedKeyExtendWrongType")
    /\ (r.st = "Err" /\ r.cause.kind = "DottedKeyExtendWrongType")
          => /\ r.cause.i = FirstConflictPlace(E, j) - 1
             /\ r.cause.actual = "integer"
             /\ Len(r.cause.path) = Len(E[j].path) - 1
             /\ \A n \in 1..Len(r.cause.path) :
                   /\ Get(r.cause.path[n]) = E[j].path[n]
                   /\ r.cause.path[n].repr = Some(E[j].spell[n])

\* C3: when a segment before the last of a key path is in its table as a
\* value that is no inline table, the result is the type-conflict error with
\* the path that was descended, the index (from 0) of the first such segment
\* and the type name of the value there, and no table; the error is given in
\* no other case.
C3_TypeConflict ==
    op = "inline_table" => TypeConflictIff(keys, FirstRefused(keys), result)

\* the second segment of a path of three is an integer in an explicit table
C3_Witness ==
    /\ op = "inline_table"
    /\ result.st = "Err"
    /\ result.cause.kind = "DottedKeyExtendWrongType"
    /\ result.cause.i = 1
    /\ Len(result.cause.path) = 2

\* the spelling of the last segment of q in the first entry that has q at
\* the start of its key path
FirstSpelling(E, q) ==
    FullSpell(E[CHOOSE j \in 1..Len(E) :
                  /\ IsPrefix(q, FullPath(E[j]))
                  /\ \A k \in 1..(j - 1) : ~IsPrefix(q, FullPath(E[k]))])[Len(q)]

\* in table t, reached by key path q, and in the tables below it every key
\* has the spelling it was first typed with
RECURSIVE SpelledAsFirst(_, _, _)
SpelledAsFirst(t, q, E) ==
    \A n \in 1..Len(t.items) :
        /\ \E j \in 1..Len(E) :
              IsPrefix(Append(q, Get(t.items[n].key)), FullPath(E[j]))
        /\ t.items[n].key.repr
              = Some(FirstSpelling(E, Append(q, Get(t.items[n].key))))
        /\ t.items[n].value.type = "inline table"
              => SpelledAsFirst(t.items[n].value.table,
                                Append(q, Get(t.items[n].key)), E)

\* no table has two entries for one key
RECURSIVE OneNodePerKey(_)
OneNodePerKey(t) ==
    \A n \in 1..Len(t.items) :
        /\ \A k \in 1..Len(t.items) :
              Get(t.items[k].key) = Get(t.items[n].key) => k = n
        /\ t.items[n].value.type = "inline table"
              => OneNodePerKey(t.items[n].value.table)

\* the text read again
Reread(s) == Finish(s, inline_table(RecursionCheckDefault, s, 1))

\* r is a table with one entry for each key, every key spelled as in the
\* first of the entries E that has it, and every entry of E in its place
AsFirstTyped(r, E) ==
    /\ r.st = "Ok"
    /\ OneNodePerKey(r.val)
    /\ SpelledAsFirst(r.val, <<>>, E)
    /\ HoldsEntries(r.val, E)

GoesThroughBraces(E, j) ==
    \E k \in 1..(j - 1) :
        /\ E[k].type = "inline table"
        /\ IsPrefix(E[k].path, E[j].path)
        /\ Len(E[k].path) < Len(E[j].path)

\* C16: a key path that goes through a table written in braces is refused,
\* and in an accepted text every table written in braces has the entries
\* written between its braces and no other.
C16_BracesAreClosed ==
    op = "inline_table" =>
        /\ (\E j \in 1..Len(keys) : GoesThroughBraces(keys, j))
              => result.st = "Err"
        /\ result.st = "Ok" =>
              \A j \in 1..Len(keys) :
                  keys[j].type = "inline table" =>
                      Len(ValueAt(result.val, keys[j].path)[1].table.items) = 1

\* a text was accepted and a table written in braces has an entry more
\* than was written between its braces
C16_Extended ==
    /\ op = "inline_table"
    /\ result.st = "Ok"
    /\ \E j \in 1..Len(keys) :
          /\ keys[j].type = "inline table"
          /\ Len(ValueAt(result.val, keys[j].path)[1].table.items) = 2
          /\ ~ValueAt(result.val, keys[j].path)[1].table.dotted

\* the decor of the values of the entries E in table t, and of the key and
\* the value inside the braces of a nested table, is the blanks typed there
DecorAsTyped(t, E) ==
    \A j \in 1..Len(E) :
        IF E[j].type = "inline table"
        THEN /\ ValueAt(t, E[j].path)[1].decor = DecorNew(<<" ">>, <<" ">>)
             /\ \E n \in 1..Len(ValueAt(t, E[j].path)[1].table.items) :
                   /\ ValueAt(t, E[j].path)[1].table.items[n].key
                         = with_decor(with_repr_unchecked(KeyNew(InnerKey.key),
                                                          InnerKey.text),
                                      DecorNew(<<" ">>, <<" ">>))
                   /\ ValueAt(t, E[j].path)[1].table.items[n].value
                         = decorated(ValueInteger(<<"1">>), <<" ">>, <<" ">>)
        ELSE ValueAt(t, E[j].path)[1]
                 = decorated(ValueInteger(<<"1">>), <<>>, <<>>)

\* C14: a value returned by parse_value has no decor of its own, whatever
\* its kind; its representation and the decor of the keys and values inside
\* an inline table are those of the text.
C14_ParseValueDecor ==
    (op = "parse_value" /\ result.st = "Ok") =>
        /\ result.val.decor.prefix = None
        /\ result.val.decor.suffix = None
        /\ IF result.val.type = "inline table"
           THEN DecorAsTyped(result.val.table, keys)
           ELSE result.val.repr = input

\* parse_value gave an inline table with a nested table written in braces
C14_Witness ==
    /\ op = "parse_value"
    /\ result.st = "Ok"
    /\ result.val.type = "inline table"
    /\ \E j \in 1..Len(keys) : keys[j].type = "inline table"

\* parse_value gave an integer
C14_WitnessInteger ==
    /\ op = "parse_value"
    /\ result.st = "Ok"
    /\ result.val.type = "integer"
    /\ Len(input) = 2

(***************************************************************************)
(* Claims about the recursion guard.                                       *)
(***************************************************************************)
\* the limit was met by a key path or a nesting of n: the error is the one
\* of the guard; below the limit the text is accepted
AtLimit(n, r) ==
    IF n >= RecursionLimit
    THEN r.st = "Err" /\ r.cause.kind = "RecursionLimitExceeded"
    ELSE r.st = "Ok"

\* the guard in parser m is the number of the tables around: in the k-th
\* of the open tables it is k, and a table about to be entered is called
\* with the number of the tables open
GuardIsLevel(m) ==
    /\ \A k \in 1..Len(m.stack) : m.stack[k].check.current = k
    /\ (m.st = "More" /\ m.mode = "table") => m.check.current = Len(m.stack)

\* C15: the guard a nested value is read with is the number of tables
\* around it, whatever values were read beside it before; and of threads
\* that parse side by side, with trace counting their calls in DEPTH, each
\* gets the result it gets alone: RecursionLimitExceeded when its own text
\* has 128 levels of tables or more, and its table otherwise.
C15_GuardPerParse ==
    /\ \A p \in DOMAIN parses : GuardIsLevel(parses[p].m)
    /\ op = "returned" =>
          /\ parses[used].result = Reread(parses[used].text)
          /\ AtLimit(parses[used].levels, parses[used].result)

\* the text with tables side by side was accepted while the other thread
\* was inside the tables of its own text
C15_Witness ==
    /\ op = "returned"
    /\ parses[used].levels = 3
    /\ parses[used].result.st = "Ok"
    /\ Len(parses[used].result.val.items) = 2
    /\ \E p \in DOMAIN parses :
          /\ parses[p].m.st = "More"
          /\ Len(parses[p].m.stack) = 2
          /\ DEPTH = 2

\* a thread enters the second of two tables that stand side by side, the
\* other thread being inside a table
C15_WitnessSiblings ==
    \E p \in DOMAIN parses, q \in DOMAIN parses :
        /\ p # q
        /\ parses[p].m.st = "More"
        /\ parses[p].m.mode = "table"
        /\ Len(parses[p].m.stack) = 2
        /\ Len(parses[p].m.stack[2].pairs) = 1
        /\ parses[q].m.st = "More"
        /\ Len(parses[q].m.stack) >= 1

\* C4: a key path of 128 segments or more is refused with
\* RecursionLimitExceeded, alone and as the key of an entry of an inline
\* table, and so are inline tables nested 128 levels or more; 127 segments
\* and 127 levels are accepted.
C4_RecursionLimit ==
    /\ op = "parse_key_path" => AtLimit(used, result)
    /\ op = "inline_table" => AtLimit(used, result)
    /\ op = "keyval" => AtLimit(used, result)

\* the part of C4 that is about parse_key_path and about nested tables
C4_AloneAndNested ==
    /\ op = "parse_key_path" => AtLimit(used, result)
    /\ op = "inline_table" => AtLimit(used, result)

\* a key path at the limit in an inline table: refused, not by the guard
C4_Swallowed ==
    /\ op = "keyval"
    /\ used >= RecursionLimit
    /\ result.st = "Err"
    /\ result.cause.kind # "RecursionLimitExceeded"

=============================================================================
